---- MODULE Spec2Model ----
(***************************************************************************)
(* A model of the 5G-AKA key derivation library (package milenage, package *)
(* aka) and of its command-line driver.                                    *)
(*                                                                         *)
(* Go slices are modelled as they are: a slice is a window (array, offset, *)
(* length, capacity) onto a backing array of the heap, nil is the slice    *)
(* with no array, a struct copy copies the windows and shares the arrays.  *)
(* Bytes are the integers 0..255 and every length is the real one.         *)
(*                                                                         *)
(* crypto/aes, crypto/sha256 and crypto/hmac are standard-library code.    *)
(* Their key-size and block-size behaviour is modelled exactly; the block  *)
(* transformation and the compression function are replaced by small keyed *)
(* mixing functions over the same widths (AESBlock, Sum256).  HMAC is the  *)
(* real construction over Sum256.                                          *)
(***************************************************************************)
EXTENDS Integers, Sequences, FiniteSets, TLC

VARIABLES
    heap,     \* the backing arrays: heap[a] is the array at address a
    mil,      \* mil[i]: the i-th *Milenage (a record of slices), or Absent
    aka,      \* the *Aka (a record of slices and a Milenage copy), or Absent
    ret,      \* ret[i]: what the last call on mil[i] returned
    gret,     \* what the last call on the Aka returned
    nops,     \* nops[i]: number of calls made on mil[i]
    nak,      \* number of calls made on the Aka
    crashed,  \* the process has panicked
    drv,      \* the caller: the driver's position and locals, or the number of
              \* calls a user of the library makes on an instance
    snap      \* what mil[1] showed when aka.New copied it, and after how many calls

vars == <<heap, mil, aka, ret, gret, nops, nak, crashed, drv, snap>>

-----------------------------------------------------------------------------
(* Bounds of the model. *)

\* calls made on a Milenage instance that is used alone
MaxOps == 3
\* calls made on each of two Milenage instances used side by side
MaxPairOps == 3
\* calls made on a Milenage instance that an Aka is made from
MaxSnapOps == 2
\* calls made on the Aka instance
MaxAkaOps == 2
\* calls made on an Aka whose keys are derived one after another
MaxKeyOps == 4
\* length of the arrays handed to Xor
MaxXorLen == 3

-----------------------------------------------------------------------------
(* Bytes and byte strings. *)

\* a function over 1..n as the tuple of its values
Eager(f) == f \o <<>>

Zeros(n) == Eager([i \in 1..n |-> 0])

RECURSIVE BitXor(_, _)
BitXor(a, b) ==
    IF a = 0 THEN b
    ELSE IF b = 0 THEN a
    ELSE (((a % 2) + (b % 2)) % 2) + 2 * BitXor(a \div 2, b \div 2)

XorNib == [a \in 0..15 |-> [b \in 0..15 |-> BitXor(a, b)]]

\* the ^ operator on two bytes
BXor(a, b) == (16 * XorNib[a \div 16][b \div 16]) + XorNib[a % 16][b % 16]

\* binary.BigEndian.PutUint16
PutUint16(v) == <<((v \div 256) % 256), (v % 256)>>

\* binary.BigEndian.PutUint64; a uint64 is given as its four 16-bit limbs,
\* most significant first
PutUint64(limbs) ==
    PutUint16(limbs[1]) \o PutUint16(limbs[2]) \o PutUint16(limbs[3]) \o PutUint16(limbs[4])

\* Mutant of xor: as many bytes as the longer argument has, the tail taken
\* from it
xorLong(b1, b2) ==
    Eager([i \in 1..(IF Len(b1) < Len(b2) THEN Len(b2) ELSE Len(b1)) |->
              IF i > Len(b1) THEN b2[i]
              ELSE IF i > Len(b2) THEN b1[i]
              ELSE BXor(b1[i], b2[i])])

\* xor: as many bytes as the shorter argument has
xor(b1, b2) ==
    LET l == IF Len(b1) - Len(b2) < 0 THEN Len(b1) ELSE Len(b2)
    IN Eager([i \in 1..l |-> BXor(b1[i], b2[i])])

-----------------------------------------------------------------------------
(* Standard-library cryptography. *)

\* aes.NewCipher accepts 16, 24 and 32 byte keys and rejects every other
KeySizeOK(key) == Len(key) \in {16, 24, 32}

SubKeyRound(key, s, r) ==
    Eager([i \in 1..16 |-> ((BXor(s[i], key[((i + r - 1) % Len(key)) + 1]) * 7) + 99) % 256])

MixRound(s) ==
    Eager([i \in 1..16 |-> (s[i] + (2 * s[(i % 16) + 1]) + (3 * s[((i + 4) % 16) + 1])) % 256])

\* cipher.Block.Encrypt on one 16-byte block (stand-in for the AES rounds)
AESBlock(key, blk) == SubKeyRound(key, MixRound(SubKeyRound(key, blk, 0)), 5)

\* sum of the bytes msg[lo..hi], each weighted by its position, modulo p
RECURSIVE WSum(_, _, _, _)
WSum(msg, lo, hi, p) ==
    IF lo > hi THEN 0
    ELSE IF lo = hi THEN (msg[lo] * ((((lo * lo * 7) + (lo * 13) + 1) % 4093) + 1)) % p
    ELSE (WSum(msg, lo, (lo + hi) \div 2, p)
          + WSum(msg, ((lo + hi) \div 2) + 1, hi, p)) % p

\* the 32 bytes spread from the sum s
Spread(s) ==
    Eager([i \in 1..32 |->
              ((((s % 4093) + i) * ((s \div 4093) + (2 * i) + 1))
               + (s \div 16) + (i * i)) % 256])

\* sha256.Sum256: 32 bytes (stand-in for the compression function)
Sum256(msg) == Spread((WSum(msg, 1, Len(msg), 16000057) + (Len(msg) * 4099)) % 16000057)

\* the two bytes strings 64 wide that HMAC hashes with, from the padded key
hmacPads(kp, msg) ==
    Sum256(Eager([i \in 1..64 |-> BXor(kp[i], 92)])
           \o Sum256(Eager([i \in 1..64 |-> BXor(kp[i], 54)]) \o msg))

\* hmac.New(sha256.New, key); Write(msg); Sum(nil)
HmacSha256(key, msg) ==
    hmacPads((IF Len(key) > 64 THEN Sum256(key) ELSE key)
             \o Zeros(64 - (IF Len(key) > 64 THEN 32 ELSE Len(key))), msg)

-----------------------------------------------------------------------------
(* Slices and the heap. *)

NilSlice == [a |-> 0, off |-> 0, len |-> 0, cap |-> 0]

Slice(a, off, len, cap) == [a |-> a, off |-> off, len |-> len, cap |-> cap]

\* the bytes a slice shows
Bytes(h, s) == IF s.a = 0 THEN <<>> ELSE SubSeq(h[s.a], s.off + 1, s.off + s.len)

\* s[lo:hi]
Reslice(s, lo, hi) == Slice(s.a, s.off + lo, hi - lo, s.cap - lo)

\* the slice onto the whole of a fresh array placed at the end of heap h
Fresh(h, n) == Slice(Len(h) + 1, 0, n, n)

\* copy(dst, src) into a zeroed destination of n bytes
Fit(src, n) == Eager([i \in 1..n |-> IF i <= Len(src) THEN src[i] ELSE 0])

\* an object that has not been constructed
Absent == [none |-> TRUE]

\* what a call returned: kind is "ok", an error kind or "panic"
Res(h, m, kind, field, val) ==
    [h |-> h, m |-> m, kind |-> kind, field |-> field, val |-> val, snn |-> <<>>,
     arr |-> <<>>]

NoRet == [op |-> "", args |-> <<>>, kind |-> "", field |-> "", val |-> <<>>, snn |-> <<>>]

-----------------------------------------------------------------------------
(* package milenage *)

\* the nine buffers both constructors make, in the order of the literal,
\* placed after the n arrays of heap h
newFields(h, n, k, opS, opcS, rand, sqn, amf) ==
    [h |-> h \o << PutUint16(amf),
                   SubSeq(PutUint64(sqn), 3, 8),
                   Zeros(8), Zeros(8), Zeros(8),
                   Zeros(16), Zeros(16), Zeros(6), Zeros(6) >>,
     m |-> [K |-> k, OP |-> opS, OPc |-> opcS, RAND |-> rand,
            AMF  |-> Slice(n + 1, 0, 2, 2),
            SQN  |-> Slice(n + 2, 0, 6, 6),
            MACA |-> Slice(n + 3, 0, 8, 8),
            MACS |-> Slice(n + 4, 0, 8, 8),
            RES  |-> Slice(n + 5, 0, 8, 8),
            CK   |-> Slice(n + 6, 0, 16, 16),
            IK   |-> Slice(n + 7, 0, 16, 16),
            AK   |-> Slice(n + 8, 0, 6, 6),
            AKS  |-> Slice(n + 9, 0, 6, 6),
            RESStar |-> NilSlice]]

New(h, k, op, rand, sqn, amf) == newFields(h, Len(h), k, op, NilSlice, rand, sqn, amf)

NewWithOPc(h, k, opc, rand, sqn, amf) == newFields(h, Len(h), k, NilSlice, opc, rand, sqn, amf)

\* the name of the first field of the wrong length, "" when there is none
validateLength(m) ==
    IF m.K.len # 16 THEN "K"
    ELSE IF m.OP.a # 0 /\ m.OP.len # 16 THEN "OP"
    ELSE IF m.OPc.a # 0 /\ m.OPc.len # 16 THEN "OPc"
    ELSE IF m.RAND.len # 16 THEN "RAND"
    ELSE IF m.SQN.len # 6 THEN "SQN"
    ELSE IF m.AMF.len # 2 THEN "AMF"
    ELSE IF m.MACA.len # 8 THEN "MACA"
    ELSE IF m.MACS.len # 8 THEN "MACS"
    ELSE IF m.RES.len # 8 THEN "RES"
    ELSE IF m.CK.len # 16 THEN "CK"
    ELSE IF m.IK.len # 16 THEN "IK"
    ELSE IF m.AK.len # 6 THEN "AK"
    ELSE IF m.AKS.len # 6 THEN "AKS"
    ELSE ""

\* the failure validateLength returns for field f
LengthMismatch(h, m, f) == Res(h, m, "LengthMismatch", f, <<>>)

\* encrypt(key, plain) for a 16-byte plain: the error of aes.NewCipher or
\* the encrypted block
encrypt(key, plain) ==
    IF ~KeySizeOK(key) THEN [err |-> TRUE, val |-> <<>>]
    ELSE [err |-> FALSE, val |-> AESBlock(key, plain)]

\* a[i] ^ b[i] for i < 16
Xor16(a, b) == Eager([i \in 1..16 |-> BXor(a[i], b[i])])

\* computeOPc, the loop that copies bytes into m.OPc: it stops at i > 16
\* only, so a 17th byte is written out of range
computeOPcCopy(h, m1, bytes) ==
    IF Len(bytes) > 16
    THEN Res(Append(h, SubSeq(bytes, 1, 16)), m1, "panic", "", <<>>)
    ELSE Res(Append(h, bytes \o Zeros(16 - Len(bytes))), m1, "ok", "", <<>>)

\* computeOPc once m.OPc is a fresh 16-byte buffer: cipher, encrypt OP, xor
computeOPcBody(h, m1, k, op) ==
    IF ~KeySizeOK(k) THEN Res(Append(h, Zeros(16)), m1, "CipherInit", "", <<>>)
    ELSE IF Len(op) < 16 THEN Res(Append(h, Zeros(16)), m1, "panic", "", <<>>)
    ELSE computeOPcCopy(h, m1,
             xor(AESBlock(k, SubSeq(op, 1, 16)) \o Zeros(Len(op) - 16), op))

\* computeOPc: m.OPc is replaced before anything can fail
computeOPc(h, m) ==
    computeOPcBody(h, [m EXCEPT !.OPc = Fresh(h, 16)], Bytes(h, m.K), Bytes(h, m.OP))

\* out[(i+r) mod 16] = x[i]
Rot(x, r) == Eager([j \in 1..16 |-> x[((j - 1 + 16 - r) % 16) + 1]])

\* x[15] ^= c
FlipLast(x, c) == [x EXCEPT ![16] = BXor(@, c)]

\* Mutant of withOPc: OP is taken for OPc
withOPcPlain(h, m) ==
    Res(h, IF m.OPc.a = 0 THEN [m EXCEPT !.OPc = m.OP] ELSE m, "ok", "", <<>>)

\* Mutant of withOPc: OPc is derived on every call
withOPcAlways(h, m) == computeOPc(h, m)

\* the OPc step every derivation starts with, after validateLength
withOPc(h, m) ==
    IF m.OPc.a = 0 THEN computeOPc(h, m) ELSE Res(h, m, "ok", "", <<>>)

\* f1base, the end: OUT1 = E(K, ..) xor OPc
f1baseOut(h, m, opc, out) ==
    IF out.err THEN Res(h, m, "CipherInit", "", <<>>)
    ELSE Res(h, m, "ok", "", xor(out.val, opc))

\* f1base after TEMP: IN1 = SQN || AMF || SQN || AMF from sqn[0..5] and
\* amf[0..1], read with no length check
f1baseIn1(h, m, k, opc, temp, sqn, amf) ==
    IF temp.err THEN Res(h, m, "CipherInit", "", <<>>)
    ELSE IF Len(sqn) < 6 \/ Len(amf) < 2 THEN Res(h, m, "panic", "", <<>>)
    ELSE f1baseOut(h, m, opc,
             encrypt(k, Xor16(Rot(Xor16(SubSeq(sqn, 1, 6) \o SubSeq(amf, 1, 2)
                                        \o SubSeq(sqn, 1, 6) \o SubSeq(amf, 1, 2), opc), 8), temp.val)))

\* f1base after the OPc step: TEMP = E(K, RAND xor OPc)
f1baseTemp(o, sqn, amf) ==
    IF o.kind # "ok" THEN o
    ELSE f1baseIn1(o.h, o.m, Bytes(o.h, o.m.K), Bytes(o.h, o.m.OPc),
                   encrypt(Bytes(o.h, o.m.K),
                           Xor16(Bytes(o.h, o.m.RAND), Bytes(o.h, o.m.OPc))),
                   sqn, amf)

\* f1base(sqn, amf): the 16 bytes OUT1, or the failure
f1base(h, m, sqn, amf) ==
    IF validateLength(m) # "" THEN LengthMismatch(h, m, validateLength(m))
    ELSE f1baseTemp(withOPc(h, m), sqn, amf)

\* Mutant of F1Store: the MAC-A the instance holds is mixed into the new one
F1StoreChained(r) ==
    IF r.kind # "ok" THEN r
    ELSE Res(Append(r.h, xor(r.val, Bytes(r.h, r.m.MACA)) \o SubSeq(r.val, 9, 16)),
             [r.m EXCEPT !.MACA = Reslice(Fresh(r.h, 16), 0, 8)],
             "ok", "", <<xor(r.val, Bytes(r.h, r.m.MACA))>>)

\* m.MACA = mac[:8]; return mac[:8]
F1Store(r) ==
    IF r.kind # "ok" THEN r
    ELSE Res(Append(r.h, r.val),
             [r.m EXCEPT !.MACA = Reslice(Fresh(r.h, 16), 0, 8)],
             "ok", "", <<SubSeq(r.val, 1, 8)>>)

\* F1: MAC-A is the first half of OUT1
F1(h, m) == F1Store(f1base(h, m, Bytes(h, m.SQN), Bytes(h, m.AMF)))

\* m.MACS = mac[8:]; return mac[8:]
F1StarStore(r) ==
    IF r.kind # "ok" THEN r
    ELSE Res(Append(r.h, r.val),
             [r.m EXCEPT !.MACS = Reslice(Fresh(r.h, 16), 8, 16)],
             "ok", "", <<SubSeq(r.val, 9, 16)>>)

\* F1Star(sqn, amf): MAC-S is the second half of OUT1
F1Star(h, m, sqn, amf) == F1StarStore(f1base(h, m, sqn, amf))

\* Mutant of F2345Store: CK and IK are copied into the arrays the fields hold
F2345StoreInPlace(h, n, m, tmp, ck, ik) ==
    Res([h EXCEPT ![m.CK.a] = ck, ![m.IK.a] = ik] \o <<tmp>>,
        [m EXCEPT !.RES = Slice(n + 1, 8, 8, 8),
                  !.AK  = Slice(n + 1, 0, 6, 16)],
        "ok", "", <<SubSeq(tmp, 9, 16), ck, ik, SubSeq(tmp, 1, 6)>>)

\* F2345, the end: RES and AK are windows onto tmp; the four fields are set
F2345Store(h, n, m, tmp, ck, ik) ==
    Res(h \o <<tmp, ck, ik>>,
        [m EXCEPT !.RES = Slice(n + 1, 8, 8, 8),
                  !.CK  = Slice(n + 2, 0, 16, 16),
                  !.IK  = Slice(n + 3, 0, 16, 16),
                  !.AK  = Slice(n + 1, 0, 6, 16)],
        "ok", "", <<SubSeq(tmp, 9, 16), ck, ik, SubSeq(tmp, 1, 6)>>)

\* F2345 after the three encryptions: xor each with OPc
F2345Outs(h, m, opc, out2, out3, out4) ==
    IF out2.err \/ out3.err \/ out4.err THEN Res(h, m, "CipherInit", "", <<>>)
    ELSE F2345Store(h, Len(h), m, xor(out2.val, opc), xor(out3.val, opc), xor(out4.val, opc))

\* F2345 with t = TEMP xor OPc: OUT2, OUT3 (r3 = 32), OUT4 (r4 = 64)
F2345Rot(h, m, k, opc, t) ==
    F2345Outs(h, m, opc,
              encrypt(k, FlipLast(t, 1)),
              encrypt(k, FlipLast(Rot(t, 12), 2)),
              encrypt(k, FlipLast(Rot(t, 8), 4)))

\* F2345 after TEMP
F2345Temp(h, m, k, opc, temp) ==
    IF temp.err THEN Res(h, m, "CipherInit", "", <<>>)
    ELSE F2345Rot(h, m, k, opc, Xor16(temp.val, opc))

\* F2345 after the OPc step
F2345OPc(o) ==
    IF o.kind # "ok" THEN o
    ELSE F2345Temp(o.h, o.m, Bytes(o.h, o.m.K), Bytes(o.h, o.m.OPc),
                   encrypt(Bytes(o.h, o.m.K),
                           Xor16(Bytes(o.h, o.m.RAND), Bytes(o.h, o.m.OPc))))

\* F2345: RES, CK, IK, AK
F2345(h, m) ==
    IF validateLength(m) # "" THEN LengthMismatch(h, m, validateLength(m))
    ELSE F2345OPc(withOPc(h, m))

\* F5Star, the end: m.AKS = (out xor OPc)[:6]
F5StarStore(h, m, o5) ==
    Res(Append(h, o5), [m EXCEPT !.AKS = Reslice(Fresh(h, 16), 0, 6)],
        "ok", "", <<SubSeq(o5, 1, 6)>>)

\* F5Star after the second encryption
F5StarOut(h, m, opc, out) ==
    IF out.err THEN Res(h, m, "CipherInit", "", <<>>)
    ELSE F5StarStore(h, m, xor(out.val, opc))

\* F5Star after TEMP: OUT5 (r5 = 96)
F5StarTemp(h, m, k, opc, tmp) ==
    IF tmp.err THEN Res(h, m, "CipherInit", "", <<>>)
    ELSE F5StarOut(h, m, opc, encrypt(k, FlipLast(Rot(Xor16(tmp.val, opc), 4), 8)))

\* F5Star after the OPc step
F5StarOPc(o) ==
    IF o.kind # "ok" THEN o
    ELSE F5StarTemp(o.h, o.m, Bytes(o.h, o.m.K), Bytes(o.h, o.m.OPc),
                    encrypt(Bytes(o.h, o.m.K),
                            Xor16(Bytes(o.h, o.m.RAND), Bytes(o.h, o.m.OPc))))

\* F5Star: AK-S
F5Star(h, m) ==
    IF validateLength(m) # "" THEN LengthMismatch(h, m, validateLength(m))
    ELSE F5StarOPc(withOPc(h, m))

\* "5G:mnc", ".mcc", ".3gppnetwork.org" as bytes
StrMnc == <<53, 71, 58, 109, 110, 99>>
StrMcc == <<46, 109, 99, 99>>
StrOrg == <<46, 51, 103, 112, 112, 110, 101, 116, 119, 111, 114, 107, 46, 111, 114, 103>>

\* fmt.Sprintf("5G:mnc%s.mcc%s.3gppnetwork.org", mnc, mcc)
SprintfSNN(mnc, mcc) == StrMnc \o mnc \o StrMcc \o mcc \o StrOrg

\* Mutant of padMnc: a 2-character MNC is used as it is
padMncNone(mnc) == mnc

\* the MNC as ComputeRESStar uses it: "0" + mnc when it has 2 characters
padMnc(mnc) == IF Len(mnc) = 2 THEN <<48>> \o mnc ELSE mnc

\* the 63 bytes S: FC, SNN, its length, RAND, its length, RES, its length
resStarInput(snn, rand, res) ==
    <<107>> \o Fit(snn, 32) \o PutUint16(Len(snn))
    \o Fit(rand, 16) \o PutUint16(Len(rand))
    \o Fit(res, 8) \o PutUint16(Len(res))

\* ComputeRESStar, the end: the last 16 bytes of the MAC (arr, the array they
\* lie in) are returned and no field of m is assigned
resStarOut(h, m, snn, out) ==
    [Res(h, m, "ok", "", <<SubSeq(out, Len(out) - 15, Len(out))>>)
        EXCEPT !.snn = snn, !.arr = out]

\* ComputeRESStar with the SNN built
resStarMac(h, m, snn) ==
    IF Len(snn) # 32 THEN Res(h, m, "InvalidSNN", "SNN", <<>>)
    ELSE resStarOut(h, m, snn,
             HmacSha256(Fit(Bytes(h, m.CK), 16) \o Fit(Bytes(h, m.IK), 16),
                        resStarInput(snn, Bytes(h, m.RAND), Bytes(h, m.RES))))

\* ComputeRESStar(mcc, mnc)
ComputeRESStar(h, m, mcc, mnc) ==
    IF validateLength(m) # "" THEN LengthMismatch(h, m, validateLength(m))
    ELSE IF Len(mcc) # 3 THEN Res(h, m, "InvalidSNN", "MCC", <<>>)
    ELSE IF Len(mnc) # 2 /\ Len(mnc) # 3 THEN Res(h, m, "InvalidSNN", "MNC", <<>>)
    ELSE resStarMac(h, m, SprintfSNN(padMnc(mnc), mcc))

\* Mutant of GenerateAUTN: the last 8 bytes are taken from MAC-S
GenerateAUTNMacS(h, m) ==
    IF validateLength(m) # "" THEN LengthMismatch(h, m, validateLength(m))
    ELSE Res(h, m, "ok", "",
             << Fit(xor(Bytes(h, m.SQN), Bytes(h, m.AK)), 6)
                \o Fit(Bytes(h, m.AMF), 2) \o Fit(Bytes(h, m.MACS), 8) >>)

\* GenerateAUTN: (SQN xor AK) || AMF || MAC-A from the current fields
GenerateAUTN(h, m) ==
    IF validateLength(m) # "" THEN LengthMismatch(h, m, validateLength(m))
    ELSE Res(h, m, "ok", "",
             << Fit(xor(Bytes(h, m.SQN), Bytes(h, m.AK)), 6)
                \o Fit(Bytes(h, m.AMF), 2) \o Fit(Bytes(h, m.MACA), 8) >>)

\* GenerateAUTS, the end: (SQN xor AK-S) || MAC-S
autsOut(f, g) ==
    IF g.kind # "ok" THEN g
    ELSE Res(g.h, g.m, "ok", "",
             << Fit(xor(Bytes(g.h, g.m.SQN), g.val[1]), 6) \o Fit(f.val[1], 8) >>)

\* GenerateAUTS after F1Star(m.SQN, 0x0000): F5Star
autsF5Star(f) == IF f.kind # "ok" THEN f ELSE autsOut(f, F5Star(f.h, f.m))

\* Mutant of GenerateAUTS: MAC-S is computed with the instance's AMF
GenerateAUTSOwnAmf(h, m) ==
    IF validateLength(m) # "" THEN LengthMismatch(h, m, validateLength(m))
    ELSE autsF5Star(F1Star(h, m, Bytes(h, m.SQN), Bytes(h, m.AMF)))

\* GenerateAUTS
GenerateAUTS(h, m) ==
    IF validateLength(m) # "" THEN LengthMismatch(h, m, validateLength(m))
    ELSE autsF5Star(F1Star(h, m, Bytes(h, m.SQN), <<0, 0>>))

\* ComputeOPc, the end: m.OPc or the error
ComputeOPcOut(r) ==
    IF r.kind # "ok" THEN Res(r.h, r.m, r.kind, "", <<>>)
    ELSE Res(r.h, r.m, "ok", "", <<Bytes(r.h, r.m.OPc)>>)

\* ComputeOPc on the instance c that New made: computeOPc with no
\* validateLength before it
ComputeOPcOn(c) == ComputeOPcOut(computeOPc(c.h, c.m))

\* ComputeOPc(k, op): New(k, op, 16 zero bytes, 0, 0); k and op are the
\* caller's byte strings
ComputeOPc(k, op) ==
    ComputeOPcOn(New(<<k, op, Zeros(16)>>,
                     Slice(1, 0, Len(k), Len(k)), Slice(2, 0, Len(op), Len(op)),
                     Slice(3, 0, 16, 16), <<0, 0, 0, 0>>, 0))

-----------------------------------------------------------------------------
(* package aka *)

\* append(s, bytes...): the bytes of the result, and the heap, which is
\* written in place when the capacity of s holds them
GoAppend(h, s, bytes) ==
    IF s.a # 0 /\ Len(bytes) > 0 /\ s.len + Len(bytes) <= s.cap
    THEN [h |-> [h EXCEPT ![s.a] =
                   SubSeq(@, 1, s.off + s.len) \o bytes
                   \o SubSeq(@, s.off + s.len + Len(bytes) + 1, Len(@))],
          val |-> Bytes(h, s) \o bytes]
    ELSE [h |-> h, val |-> Bytes(h, s) \o bytes]

\* byteArrayLen2B
byteArrayLen2B(b) == PutUint16(Len(b) % 65536)

\* aka.New(mil, SNN, SUPI): mil is copied field by field, its arrays shared
akaNew(h, m, snn, supi) ==
    Res(h \o <<snn, supi, Zeros(32), Zeros(32), Zeros(32)>>,
        [mil   |-> m,
         SNN   |-> Slice(Len(h) + 1, 0, Len(snn), Len(snn)),
         SUPI  |-> Slice(Len(h) + 2, 0, Len(supi), Len(supi)),
         KAUSF |-> Slice(Len(h) + 3, 0, 32, 32),
         KSEAF |-> Slice(Len(h) + 4, 0, 32, 32),
         KAMF  |-> Slice(Len(h) + 5, 0, 32, 32),
         HXRESStar |-> NilSlice],
        "ok", "", <<>>)

\* a.KAUSF = kausf; return kausf
kausfStore(h, a, kausf) ==
    Res(Append(h, kausf), [a EXCEPT !.KAUSF = Fresh(h, 32)], "ok", "", <<kausf>>)

\* ComputeKAUSF with inputKey = append(a.mil.CK, a.mil.IK...): the MAC of
\* FC || P0 || L0 || P1 || L1
kausfMac(h, a, inputKey) ==
    kausfStore(inputKey.h, a,
               HmacSha256(inputKey.val,
                          <<106>> \o Bytes(h, a.SNN) \o byteArrayLen2B(Bytes(h, a.SNN))
                          \o xor(Bytes(h, a.mil.SQN), Bytes(h, a.mil.AK))
                          \o byteArrayLen2B(xor(Bytes(h, a.mil.SQN), Bytes(h, a.mil.AK)))))

ComputeKAUSF(h, a) == kausfMac(h, a, GoAppend(h, a.mil.CK, Bytes(h, a.mil.IK)))

\* a.KSEAF = kseaf; return kseaf
kseafStore(h, a, kseaf) ==
    Res(Append(h, kseaf), [a EXCEPT !.KSEAF = Fresh(h, 32)], "ok", "", <<kseaf>>)

ComputeKSEAF(h, a) ==
    kseafStore(h, a,
               HmacSha256(Bytes(h, a.KAUSF),
                          <<108>> \o Bytes(h, a.SNN) \o byteArrayLen2B(Bytes(h, a.SNN))))

\* a.KAMF = kamf; return kamf
kamfStore(h, a, kamf) ==
    Res(Append(h, kamf), [a EXCEPT !.KAMF = Fresh(h, 32)], "ok", "", <<kamf>>)

\* Mutant of ComputeKAMF: the key is the stored KSEAF
ComputeKAMFChained(h, a) ==
    kamfStore(h, a,
              HmacSha256(Bytes(h, a.KSEAF),
                         <<109>> \o Bytes(h, a.SUPI) \o byteArrayLen2B(Bytes(h, a.SUPI))
                         \o <<0, 0>> \o <<0, 2>>))

ComputeKAMF(h, a) ==
    kamfStore(h, a,
              HmacSha256(Bytes(h, a.KAUSF),
                         <<109>> \o Bytes(h, a.SUPI) \o byteArrayLen2B(Bytes(h, a.SUPI))
                         \o <<0, 0>> \o <<0, 2>>))

\* hxresstar := hash[len(hash)-16:]; a.HXRESStar = hxresstar
hxresStore(h, a, hash) ==
    Res(Append(h, hash), [a EXCEPT !.HXRESStar = Reslice(Fresh(h, 32), 16, 32)],
        "ok", "", <<SubSeq(hash, Len(hash) - 15, Len(hash))>>)

\* ComputeHXRESStar: the hash of
\* inputString = append(a.mil.RAND, a.mil.RESStar...)
ComputeHXRESStar(h, a) ==
    hxresStore(GoAppend(h, a.mil.RAND, Bytes(h, a.mil.RESStar)).h, a,
               Sum256(GoAppend(h, a.mil.RAND, Bytes(h, a.mil.RESStar)).val))

-----------------------------------------------------------------------------
(* The Go runtime: arrays no slice reaches are collected, and the address  *)
(* of an array is not observable.  After every call the heap is rewritten  *)
(* to hold the reachable arrays only, numbered in the order the fields    *)
(* first reach them.                                                       *)

\* the addresses the fields of a Milenage hold, in the order of the struct
MilAddrs(m) ==
    IF m = Absent THEN <<>>
    ELSE <<m.K.a, m.OP.a, m.OPc.a, m.RAND.a, m.SQN.a, m.AMF.a, m.MACA.a,
           m.MACS.a, m.RES.a, m.CK.a, m.IK.a, m.AK.a, m.AKS.a, m.RESStar.a>>

\* the addresses the fields of an Aka hold, in the order of the struct
AkaAddrs(a) ==
    IF a = Absent THEN <<>>
    ELSE MilAddrs(a.mil)
         \o <<a.SNN.a, a.SUPI.a, a.KAUSF.a, a.KSEAF.a, a.KAMF.a, a.HXRESStar.a>>

\* the arrays reached, each with the first position that reaches it
FirstOf(addrs) ==
    [a \in {addrs[j] : j \in 1..Len(addrs)} \ {0} |->
        CHOOSE j \in 1..Len(addrs) :
            addrs[j] = a /\ \A k \in 1..(j - 1) : addrs[k] # a]

\* the new address of each array reached
RankOf(first) ==
    [a \in DOMAIN first |-> 1 + Cardinality({b \in DOMAIN first : first[b] < first[a]})]

CompactHeap(h, rank) ==
    Eager([j \in 1..Cardinality(DOMAIN rank) |->
              h[CHOOSE a \in DOMAIN rank : rank[a] = j]])

MoveSlice(s, rank) == IF s.a = 0 THEN s ELSE [s EXCEPT !.a = rank[s.a]]

MoveMil(m, rank) ==
    IF m = Absent THEN m
    ELSE [K    |-> MoveSlice(m.K, rank),    OP   |-> MoveSlice(m.OP, rank),
          OPc  |-> MoveSlice(m.OPc, rank),  RAND |-> MoveSlice(m.RAND, rank),
          SQN  |-> MoveSlice(m.SQN, rank),  AMF  |-> MoveSlice(m.AMF, rank),
          MACA |-> MoveSlice(m.MACA, rank), MACS |-> MoveSlice(m.MACS, rank),
          RES  |-> MoveSlice(m.RES, rank),  CK   |-> MoveSlice(m.CK, rank),
          IK   |-> MoveSlice(m.IK, rank),   AK   |-> MoveSlice(m.AK, rank),
          AKS  |-> MoveSlice(m.AKS, rank),  RESStar |-> MoveSlice(m.RESStar, rank)]

MoveAka(a, rank) ==
    IF a = Absent THEN a
    ELSE [mil   |-> MoveMil(a.mil, rank),
          SNN   |-> MoveSlice(a.SNN, rank),   SUPI  |-> MoveSlice(a.SUPI, rank),
          KAUSF |-> MoveSlice(a.KAUSF, rank), KSEAF |-> MoveSlice(a.KSEAF, rank),
          KAMF  |-> MoveSlice(a.KAMF, rank),  HXRESStar |-> MoveSlice(a.HXRESStar, rank)]

\* the new addresses for the objects ms[1], ms[2] and a
Ranks(ms, a) == RankOf(FirstOf(MilAddrs(ms[1]) \o MilAddrs(ms[2]) \o AkaAddrs(a)))

\* the objects and the heap a step leaves
SettleBy(h, ms, a, rank) ==
    /\ heap' = CompactHeap(h, rank)
    /\ mil' = <<MoveMil(ms[1], rank), MoveMil(ms[2], rank)>>
    /\ aka' = MoveAka(a, rank)

Settle(h, ms, a) == SettleBy(h, ms, a, Ranks(ms, a))

-----------------------------------------------------------------------------
(* What a caller can see of an instance: for each field, whether it is nil *)
(* and the bytes it shows.                                                 *)

FieldView(h, s) == <<s.a = 0, Bytes(h, s)>>

MilView(h, m) ==
    [K    |-> FieldView(h, m.K),    OP   |-> FieldView(h, m.OP),
     OPc  |-> FieldView(h, m.OPc),  RAND |-> FieldView(h, m.RAND),
     SQN  |-> FieldView(h, m.SQN),  AMF  |-> FieldView(h, m.AMF),
     MACA |-> FieldView(h, m.MACA), MACS |-> FieldView(h, m.MACS),
     RES  |-> FieldView(h, m.RES),  CK   |-> FieldView(h, m.CK),
     IK   |-> FieldView(h, m.IK),   AK   |-> FieldView(h, m.AK),
     AKS  |-> FieldView(h, m.AKS),  RESStar |-> FieldView(h, m.RESStar)]

-----------------------------------------------------------------------------
(* Inputs. *)

\* 00 11 22 .. ff, the K, OP and RAND of the driver's defaults
Pattern == Eager([i \in 1..16 |-> 17 * (i - 1)])

KGood == Pattern
KAlt  == Eager([i \in 1..16 |-> ((7 * i) + 3) % 256])
K15   == SubSeq(Pattern, 1, 15)
K17   == Pattern \o <<1>>
KSet  == {KGood, K15, K17}

OPGood   == Pattern
OPAlt    == Eager([i \in 1..16 |-> 255 - (5 * i)])
RANDGood == Pattern
\* the OPc a caller of NewWithOPc holds for (k, op)
OPcInput(k, op) == IF KeySizeOK(k) THEN ComputeOPc(k, op).val[1]
    ELSE ComputeOPc(KGood, OPGood).val[1]

\* sqn as four 16-bit limbs: 1 and 2^48 - 1
SqnSet == {<<0, 0, 0, 1>>, <<0, 65535, 65535, 65535>>}

\* sqn = 1
SqnOne == {<<0, 0, 0, 1>>}

\* amf = 0x8000
AmfSet == {32768}

\* "001", "01"
D001  == <<48, 48, 49>>
D01   == <<48, 49>>

\* (mcc, mnc) pairs handed to ComputeRESStar: an MNC of 2, 3, 1 and 4
\* characters, an MCC of 2 and 4 characters
MccMncSet == {<<D001, D01>>, <<D001, D001>>, <<D001, <<49>>>>, <<D001, <<48>> \o D001>>,
              <<D01, D01>>, <<<<48>> \o D001, D001>>}

\* the pair of the home network 001/01
MccMncHome == {<<D001, D01>>}

\* (sqn, amf) pairs handed to F1Star, from the instance's own sqn and amf
F1StarArgsOf(sqn, amf) ==
    {<<sqn, amf>>, <<sqn, <<0, 0>>>>, <<<<0, 0, 0, 0, 0, 2>>, amf>>,
     <<SubSeq(sqn, 1, 5), amf>>, <<sqn \o <<9>>, amf>>,
     <<sqn, <<128>>>>, <<sqn, amf \o <<7>>>>}

\* m.F1Star(m.SQN, m.AMF), as ComputeAll calls it
F1StarOwn(h, m) == {<<Bytes(h, m.SQN), Bytes(h, m.AMF)>>}

\* the caller's three arrays and a constructed instance at the end of heap h
Construct(h, k, op, mode, randCap, sqn, amf) ==
    IF mode = "OP"
    THEN New(h \o <<k, op, RANDGood \o Zeros(randCap - 16)>>,
             Slice(Len(h) + 1, 0, Len(k), Len(k)), Slice(Len(h) + 2, 0, 16, 16),
             Slice(Len(h) + 3, 0, 16, randCap), sqn, amf)
    ELSE NewWithOPc(h \o <<k, OPcInput(k, op), RANDGood \o Zeros(randCap - 16)>>,
             Slice(Len(h) + 1, 0, Len(k), Len(k)), Slice(Len(h) + 2, 0, 16, 16),
             Slice(Len(h) + 3, 0, 16, randCap), sqn, amf)

NoSnap == [at |-> 0, view |-> <<>>]

NoAkaRet == [op |-> "", kind |-> "", val |-> <<>>, at |-> 0]

-----------------------------------------------------------------------------
(* The library used on one Milenage instance. *)

\* the state once a user of the library, who makes at most b calls on an
\* instance, has constructed the objects ms on heap h
InitBy(h, ms, rank, b) ==
    /\ heap = CompactHeap(h, rank)
    /\ mil = <<MoveMil(ms[1], rank), MoveMil(ms[2], rank)>>
    /\ aka = Absent
    /\ ret = <<NoRet, NoRet>>
    /\ gret = NoAkaRet
    /\ nops = <<0, 0>>
    /\ nak = 0
    /\ crashed = FALSE
    /\ drv = [pc |-> "lib", budget |-> b]
    /\ snap = NoSnap

\* one instance, constructed by c
InitWith(c, b) == InitBy(c.h, <<c.m, Absent>>, Ranks(<<c.m, Absent>>, Absent), b)

Init ==
    \E k \in KSet, mode \in {"OP", "OPc"}, randCap \in {16, 32},
       sqn \in SqnSet, amf \in AmfSet :
        InitWith(Construct(<<>>, k, OPGood, mode, randCap, sqn, amf), MaxOps)

CanCall(i) == ~crashed /\ mil[i] # Absent /\ nops[i] < drv.budget

\* what ret[i] records of a call
RetOf(op, args, r) ==
    [op |-> op, args |-> args, kind |-> r.kind, field |-> r.field,
     val |-> r.val, snn |-> r.snn]

\* a call on mil[i] returned (or panicked with) r
Returned(i, op, args, r) ==
    /\ Settle(r.h, [mil EXCEPT ![i] = r.m], aka)
    /\ ret' = [ret EXCEPT ![i] = RetOf(op, args, r)]
    /\ nops' = [nops EXCEPT ![i] = @ + 1]
    /\ crashed' = (r.kind = "panic")
    /\ UNCHANGED <<gret, nak, drv, snap>>

CallF1(i) == CanCall(i) /\ Returned(i, "F1", <<>>, F1(heap, mil[i]))

\* F1Star with a pair of argset
CallF1Star(i, argset) ==
    /\ CanCall(i)
    /\ \E a \in argset :
           Returned(i, "F1Star", a, F1Star(heap, mil[i], a[1], a[2]))

CallF2345(i) == CanCall(i) /\ Returned(i, "F2345", <<>>, F2345(heap, mil[i]))

CallF5Star(i) == CanCall(i) /\ Returned(i, "F5Star", <<>>, F5Star(heap, mil[i]))

\* ComputeRESStar with a pair of argset; the caller keeps the result
CallComputeRESStar(i, argset) ==
    /\ CanCall(i)
    /\ \E a \in argset :
           Returned(i, "ComputeRESStar", a, ComputeRESStar(heap, mil[i], a[1], a[2]))

CallGenerateAUTN(i) ==
    CanCall(i) /\ Returned(i, "GenerateAUTN", <<>>, GenerateAUTN(heap, mil[i]))

CallGenerateAUTS(i) ==
    CanCall(i) /\ Returned(i, "GenerateAUTS", <<>>, GenerateAUTS(heap, mil[i]))

\* ComputeOPc(k, op) with the instance's key and the operator's OP; it
\* touches no instance
CallComputeOPc(i) ==
    /\ CanCall(i)
    /\ Returned(i, "ComputeOPc", <<Bytes(heap, mil[i].K), OPGood>>,
                [ComputeOPc(Bytes(heap, mil[i].K), OPGood)
                    EXCEPT !.h = heap, !.m = mil[i]])

Next ==
    \/ CallF1(1)
    \/ CallF1Star(1, F1StarArgsOf(Bytes(heap, mil[1].SQN), Bytes(heap, mil[1].AMF)))
    \/ CallF2345(1)
    \/ CallF5Star(1)
    \/ CallComputeRESStar(1, MccMncSet)
    \/ CallGenerateAUTN(1)
    \/ CallGenerateAUTS(1)
    \/ CallComputeOPc(1)

Spec == Init /\ [][Next]_vars

-----------------------------------------------------------------------------
(* The library used on one Milenage instance and an Aka made from it. *)

\* m.RESStar, err = m.ComputeRESStar(mcc, mnc): the field takes the slice
\* returned, which is nil when an error is returned
AssignStore(r) ==
    IF r.kind = "panic" THEN r
    ELSE IF r.kind # "ok" THEN [r EXCEPT !.m.RESStar = NilSlice]
    ELSE [r EXCEPT !.h = Append(r.h, r.arr),
                   !.m.RESStar = Reslice(Fresh(r.h, 32), 16, 32)]

\* ComputeRESStar with a pair of argset; the caller stores the result in
\* m.RESStar
AssignRESStar(i, argset) ==
    /\ CanCall(i)
    /\ \E a \in argset :
           Returned(i, "ComputeRESStar", a,
                    AssignStore(ComputeRESStar(heap, mil[i], a[1], a[2])))

\* "001010123456789"
Supi == <<48, 48, 49, 48, 49, 48, 49, 50, 51, 52, 53, 54, 55, 56, 57>>

\* a := aka.New(*m, snn, supi) with the 32-byte SNN of the home network: the
\* Aka holds a copy of mil[1] as it is now
CallAkaNew ==
    /\ ~crashed /\ aka = Absent /\ mil[1] # Absent
    /\ Settle(akaNew(heap, mil[1], SprintfSNN(<<48>> \o D01, D001), Supi).h, mil,
              akaNew(heap, mil[1], SprintfSNN(<<48>> \o D01, D001), Supi).m)
    /\ snap' = [at |-> nops[1], view |-> MilView(heap, mil[1])]
    /\ UNCHANGED <<ret, gret, nops, nak, crashed, drv>>

CanAka == ~crashed /\ aka # Absent /\ nak < MaxAkaOps

\* a call on the Aka returned r; r.m is the Aka
AkaReturned(op, r) ==
    /\ Settle(r.h, mil, r.m)
    /\ gret' = [op |-> op, kind |-> r.kind, val |-> r.val, at |-> nops[1]]
    /\ nak' = nak + 1
    /\ UNCHANGED <<ret, nops, crashed, drv, snap>>

CallComputeKAUSF == CanAka /\ AkaReturned("ComputeKAUSF", ComputeKAUSF(heap, aka))

CallComputeKSEAF == CanAka /\ AkaReturned("ComputeKSEAF", ComputeKSEAF(heap, aka))

CallComputeKAMF == CanAka /\ AkaReturned("ComputeKAMF", ComputeKAMF(heap, aka))

CallComputeHXRESStar ==
    CanAka /\ AkaReturned("ComputeHXRESStar", ComputeHXRESStar(heap, aka))

InitAka ==
    \E mode \in {"OP", "OPc"}, randCap \in {16, 32} :
        InitWith(Construct(<<>>, KGood, OPGood, mode, randCap, <<0, 0, 0, 1>>, 32768),
                 MaxSnapOps)

NextAka ==
    \/ CallF1(1)
    \/ CallF1Star(1, F1StarOwn(heap, mil[1]))
    \/ CallF2345(1)
    \/ CallF5Star(1)
    \/ CallGenerateAUTS(1)
    \/ CallComputeRESStar(1, MccMncHome)
    \/ AssignRESStar(1, MccMncHome)
    \/ CallAkaNew
    \/ CallComputeKAUSF
    \/ CallComputeKSEAF
    \/ CallComputeKAMF
    \/ CallComputeHXRESStar

SpecAka == InitAka /\ [][NextAka]_vars

-----------------------------------------------------------------------------
(* An Aka made from an instance after F2345, and its keys derived in any   *)
(* order.                                                                  *)

\* a call of op on the Aka, which returns r
CallKey(op, r) ==
    ~crashed /\ aka # Absent /\ nak < MaxKeyOps /\ AkaReturned(op, r)

\* F2345 and the storing of RES* come before aka.New, as in the driver
NextKeys ==
    \/ (aka = Absent /\ CallF2345(1))
    \/ (aka = Absent /\ AssignRESStar(1, MccMncHome))
    \/ CallAkaNew
    \/ CallKey("ComputeKAUSF", ComputeKAUSF(heap, aka))
    \/ CallKey("ComputeKSEAF", ComputeKSEAF(heap, aka))
    \/ CallKey("ComputeKAMF", ComputeKAMF(heap, aka))
    \/ CallKey("ComputeHXRESStar", ComputeHXRESStar(heap, aka))

SpecKeys == InitAka /\ [][NextKeys]_vars

-----------------------------------------------------------------------------
(* Two Milenage instances, the first made by New(K, OP, ..), the second by *)
(* NewWithOPc(K, ComputeOPc(K, OP), ..), and every call made on both.      *)

\* two instances, constructed by c1 and then, on the heap c1 leaves, by c2
InitTwo(c1, c2, b) == InitBy(c2.h, <<c1.m, c2.m>>, Ranks(<<c1.m, c2.m>>, Absent), b)

\* the second instance is made with mode2 from what the first was made from
InitAfter(c1, k, op, mode2, sqn, amf, b) ==
    InitTwo(c1, Construct(c1.h, k, op, mode2, 16, sqn, amf), b)

InitEquiv ==
    \E k \in {KGood, KAlt}, op \in {OPGood, OPAlt}, sqn \in SqnSet, amf \in AmfSet :
        InitAfter(Construct(<<>>, k, op, "OP", 16, sqn, amf),
                  k, op, "OPc", sqn, amf, MaxOps)

CanBoth == CanCall(1) /\ CanCall(2)

\* the call returned r1 on mil[1] and then, on the heap r1 leaves, r2 on
\* mil[2]
BothReturned(op, args, r1, r2) ==
    /\ Settle(r2.h, <<r1.m, r2.m>>, aka)
    /\ ret' = <<RetOf(op, args, r1), RetOf(op, args, r2)>>
    /\ nops' = <<nops[1] + 1, nops[2] + 1>>
    /\ crashed' = (r1.kind = "panic" \/ r2.kind = "panic")
    /\ UNCHANGED <<gret, nak, drv, snap>>

BothF1 ==
    /\ CanBoth
    /\ BothReturned("F1", <<>>, F1(heap, mil[1]),
                    F1(F1(heap, mil[1]).h, mil[2]))

BothF1Star ==
    /\ CanBoth
    /\ \E a \in F1StarArgsOf(Bytes(heap, mil[1].SQN), Bytes(heap, mil[1].AMF)) :
           BothReturned("F1Star", a, F1Star(heap, mil[1], a[1], a[2]),
                        F1Star(F1Star(heap, mil[1], a[1], a[2]).h, mil[2], a[1], a[2]))

BothF2345 ==
    /\ CanBoth
    /\ BothReturned("F2345", <<>>, F2345(heap, mil[1]),
                    F2345(F2345(heap, mil[1]).h, mil[2]))

BothF5Star ==
    /\ CanBoth
    /\ BothReturned("F5Star", <<>>, F5Star(heap, mil[1]),
                    F5Star(F5Star(heap, mil[1]).h, mil[2]))

BothComputeRESStar ==
    /\ CanBoth
    /\ \E a \in MccMncSet :
           BothReturned("ComputeRESStar", a, ComputeRESStar(heap, mil[1], a[1], a[2]),
                        ComputeRESStar(ComputeRESStar(heap, mil[1], a[1], a[2]).h,
                                       mil[2], a[1], a[2]))

BothGenerateAUTN ==
    /\ CanBoth
    /\ BothReturned("GenerateAUTN", <<>>, GenerateAUTN(heap, mil[1]),
                    GenerateAUTN(GenerateAUTN(heap, mil[1]).h, mil[2]))

BothGenerateAUTS ==
    /\ CanBoth
    /\ BothReturned("GenerateAUTS", <<>>, GenerateAUTS(heap, mil[1]),
                    GenerateAUTS(GenerateAUTS(heap, mil[1]).h, mil[2]))

NextEquiv ==
    \/ BothF1
    \/ BothF1Star
    \/ BothF2345
    \/ BothF5Star
    \/ BothComputeRESStar
    \/ BothGenerateAUTN
    \/ BothGenerateAUTS

SpecEquiv == InitEquiv /\ [][NextEquiv]_vars

-----------------------------------------------------------------------------
(* Two Milenage instances made from equal inputs by the same constructor,  *)
(* each called on its own.                                                 *)

InitPair ==
    \E mode \in {"OP", "OPc"}, sqn \in SqnOne, amf \in AmfSet :
        InitAfter(Construct(<<>>, KGood, OPGood, mode, 16, sqn, amf),
                  KGood, OPGood, mode, sqn, amf, MaxPairOps)

PairOp(i) ==
    \/ CallF1(i)
    \/ CallF1Star(i, F1StarOwn(heap, mil[i]))
    \/ CallF2345(i)
    \/ CallF5Star(i)
    \/ CallComputeRESStar(i, MccMncHome)
    \/ CallGenerateAUTS(i)

NextPair == PairOp(1) \/ PairOp(2)

SpecPair == InitPair /\ [][NextPair]_vars

-----------------------------------------------------------------------------
(* The driver: one authentication round, statement by statement.  The flags *)
(* are given decoded; an undecodable flag ends the run before any call.     *)

\* "001010123456789", "310260123456789", "262019876543210", "0010"
ImsiSet == {Supi,
            <<51, 49, 48, 50, 54, 48, 49, 50, 51, 52, 53, 54, 55, 56, 57>>,
            <<50, 54, 50, 48, 49, 57, 56, 55, 54, 53, 52, 51, 50, 49, 48>>,
            <<48, 48, 49, 48>>}

\* the 2n characters, 0-9 and a-f, a flag holds for n bytes
HexText(bytes) ==
    Eager([j \in 1..(2 * Len(bytes)) |->
              <<48, 49, 50, 51, 52, 53, 54, 55, 56, 57, 97, 98, 99, 100, 101, 102>>
                  [1 + (IF j % 2 = 1 THEN bytes[(j + 1) \div 2] \div 16
                        ELSE bytes[(j + 1) \div 2] % 16)]])

\* the allocation size for n bytes
SizeClass(n) == CHOOSE c \in {8, 16, 24, 32, 48, 64, 80} :
                    c >= n /\ \A d \in {8, 16, 24, 32, 48, 64, 80} : d >= n => c <= d

\* hex.DecodeString: the array of the text, decoded in place; the result is
\* the slice onto its first half
HexArray(bytes) ==
    bytes \o SubSeq(HexText(bytes), Len(bytes) + 1, 2 * Len(bytes))
    \o Zeros(SizeClass(2 * Len(bytes)) - (2 * Len(bytes)))

\* where the driver goes after a call that returned kind
After(kind, next) ==
    IF kind = "ok" THEN next ELSE IF kind = "panic" THEN "panic" ELSE "fatal"

InitMain ==
    /\ heap = <<>>
    /\ mil = <<Absent, Absent>>
    /\ aka = Absent
    /\ ret = <<NoRet, NoRet>>
    /\ gret = NoAkaRet
    /\ nops = <<0, 0>>
    /\ nak = 0
    /\ crashed = FALSE
    /\ snap = NoSnap
    /\ \E imsi \in ImsiSet, k \in {KGood, KAlt, K15}, sqn \in SqnSet, amf \in AmfSet :
           drv = [pc |-> "ComputeOPc", imsi |-> imsi, k |-> k, op |-> OPGood,
                  rand |-> RANDGood, sqn |-> sqn, amf |-> amf,
                  opc |-> <<>>, mcc |-> <<>>, mnc |-> <<>>, resSnn |-> <<>>]

\* opc, err := milenage.ComputeOPc(k, op); an error ends the run
DrvComputeOPc ==
    /\ drv.pc = "ComputeOPc"
    /\ drv' = [drv EXCEPT !.pc = After(ComputeOPc(drv.k, drv.op).kind, "imsi"),
                          !.opc = IF ComputeOPc(drv.k, drv.op).kind = "ok"
                                  THEN ComputeOPc(drv.k, drv.op).val[1] ELSE @]
    /\ crashed' = (ComputeOPc(drv.k, drv.op).kind = "panic")
    /\ UNCHANGED <<heap, mil, aka, ret, gret, nops, nak, snap>>

\* mcc := imsi[0:3]; mnc := imsi[3:5]; Printf(.., imsi[5:])
DrvSliceIMSI ==
    /\ drv.pc = "imsi"
    /\ IF Len(drv.imsi) < 5
       THEN drv' = [drv EXCEPT !.pc = "panic"] /\ crashed' = TRUE
       ELSE /\ drv' = [drv EXCEPT !.pc = "NewWithOPc",
                                  !.mcc = SubSeq(drv.imsi, 1, 3),
                                  !.mnc = SubSeq(drv.imsi, 4, 5)]
            /\ crashed' = FALSE
    /\ UNCHANGED <<heap, mil, aka, ret, gret, nops, nak, snap>>

\* the driver's instance is c.m on heap c.h
DrvMade(c) ==
    /\ Settle(c.h, <<c.m, Absent>>, Absent)
    /\ drv' = [drv EXCEPT !.pc = "F1"]
    /\ UNCHANGED <<ret, gret, nops, nak, crashed, snap>>

\* m := milenage.NewWithOPc(k, opc, rand, sqn, amf) on the arrays of k, opc
\* and rand
DrvNewWithOPc ==
    /\ drv.pc = "NewWithOPc"
    /\ DrvMade(NewWithOPc(<<HexArray(drv.k), drv.opc, HexArray(drv.rand)>>,
                          Slice(1, 0, Len(drv.k), SizeClass(2 * Len(drv.k))),
                          Slice(2, 0, Len(drv.opc), Len(drv.opc)),
                          Slice(3, 0, Len(drv.rand), SizeClass(2 * Len(drv.rand))),
                          drv.sqn, drv.amf))

\* a call on m returned r; an error ends the run
DrvReturned(op, args, r, next) ==
    /\ Settle(r.h, [mil EXCEPT ![1] = r.m], aka)
    /\ ret' = [ret EXCEPT ![1] = RetOf(op, args, r)]
    /\ nops' = [nops EXCEPT ![1] = @ + 1]
    /\ crashed' = (r.kind = "panic")
    /\ drv' = [drv EXCEPT !.pc = After(r.kind, next),
                          !.resSnn = IF op = "ComputeRESStar" THEN r.snn ELSE @]
    /\ UNCHANGED <<gret, nak, snap>>

DrvF1 == drv.pc = "F1" /\ DrvReturned("F1", <<>>, F1(heap, mil[1]), "F2345")

DrvF2345 ==
    drv.pc = "F2345" /\ DrvReturned("F2345", <<>>, F2345(heap, mil[1]), "ComputeRESStar")

\* m.RESStar, err = m.ComputeRESStar(imsi[0:3], imsi[3:5])
DrvComputeRESStar ==
    /\ drv.pc = "ComputeRESStar"
    /\ DrvReturned("ComputeRESStar", <<SubSeq(drv.imsi, 1, 3), SubSeq(drv.imsi, 4, 5)>>,
                   AssignStore(ComputeRESStar(heap, mil[1], SubSeq(drv.imsi, 1, 3),
                                              SubSeq(drv.imsi, 4, 5))),
                   "GenerateAUTN")

DrvGenerateAUTN ==
    /\ drv.pc = "GenerateAUTN"
    /\ DrvReturned("GenerateAUTN", <<>>, GenerateAUTN(heap, mil[1]), "aka.New")

\* snn := fmt.Sprintf("5G:mnc%s.mcc%s.3gppnetwork.org", mnc, mcc);
\* a := aka.New(*m, snn, imsi)
DrvAkaNew ==
    /\ drv.pc = "aka.New"
    /\ Settle(akaNew(heap, mil[1], SprintfSNN(drv.mnc, drv.mcc), drv.imsi).h, mil,
              akaNew(heap, mil[1], SprintfSNN(drv.mnc, drv.mcc), drv.imsi).m)
    /\ snap' = [at |-> nops[1], view |-> MilView(heap, mil[1])]
    /\ drv' = [drv EXCEPT !.pc = "ComputeKAUSF"]
    /\ UNCHANGED <<ret, gret, nops, nak, crashed>>

\* a call on a returned r
DrvAkaReturned(op, r, next) ==
    /\ Settle(r.h, mil, r.m)
    /\ gret' = [op |-> op, kind |-> r.kind, val |-> r.val, at |-> nops[1]]
    /\ nak' = nak + 1
    /\ drv' = [drv EXCEPT !.pc = After(r.kind, next)]
    /\ UNCHANGED <<ret, nops, crashed, snap>>

DrvComputeKAUSF ==
    /\ drv.pc = "ComputeKAUSF"
    /\ DrvAkaReturned("ComputeKAUSF", ComputeKAUSF(heap, aka), "ComputeHXRESStar")

DrvComputeHXRESStar ==
    /\ drv.pc = "ComputeHXRESStar"
    /\ DrvAkaReturned("ComputeHXRESStar", ComputeHXRESStar(heap, aka), "ComputeKSEAF")

DrvComputeKSEAF ==
    /\ drv.pc = "ComputeKSEAF"
    /\ DrvAkaReturned("ComputeKSEAF", ComputeKSEAF(heap, aka), "ComputeKAMF")

DrvComputeKAMF ==
    /\ drv.pc = "ComputeKAMF"
    /\ DrvAkaReturned("ComputeKAMF", ComputeKAMF(heap, aka), "done")

NextMain ==
    \/ DrvComputeOPc
    \/ DrvSliceIMSI
    \/ DrvNewWithOPc
    \/ DrvF1
    \/ DrvF2345
    \/ DrvComputeRESStar
    \/ DrvGenerateAUTN
    \/ DrvAkaNew
    \/ DrvComputeKAUSF
    \/ DrvComputeHXRESStar
    \/ DrvComputeKSEAF
    \/ DrvComputeKAMF

SpecMain == InitMain /\ [][NextMain]_vars

-----------------------------------------------------------------------------
(* Xor called on two byte slices of a caller. *)

\* the caller holds two arrays and passes b1, a window of the first or nil,
\* and b2, a window of either or nil
InitXor ==
    \E x \in [1..MaxXorLen -> {0, 165, 255}],
       y \in {Eager([i \in 1..MaxXorLen |-> (c * i) % 256]) : c \in {15, 90, 129}},
       lo1 \in 0..MaxXorLen, hi1 \in 0..MaxXorLen,
       lo2 \in 0..MaxXorLen, hi2 \in 0..MaxXorLen, a2 \in 1..2,
       nil1 \in BOOLEAN, nil2 \in BOOLEAN :
        /\ lo1 <= hi1 /\ lo2 <= hi2
        /\ nil1 => (lo1 = 0 /\ hi1 = 0)
        /\ nil2 => (lo2 = 0 /\ hi2 = 0 /\ a2 = 1)
        /\ heap = <<Eager(x), y>>
        /\ drv = [pc |-> "Xor",
                  b1 |-> IF nil1 THEN NilSlice
                         ELSE Reslice(Slice(1, 0, MaxXorLen, MaxXorLen), lo1, hi1),
                  b2 |-> IF nil2 THEN NilSlice
                         ELSE Reslice(Slice(a2, 0, MaxXorLen, MaxXorLen), lo2, hi2),
                  out |-> NilSlice]
        /\ mil = <<Absent, Absent>>
        /\ aka = Absent
        /\ ret = <<NoRet, NoRet>>
        /\ gret = NoAkaRet
        /\ nops = <<0, 0>>
        /\ nak = 0
        /\ crashed = FALSE
        /\ snap = NoSnap

\* out := Xor(b1, b2): out is a slice onto an array made by the call
CallXor ==
    /\ drv.pc = "Xor"
    /\ heap' = Append(heap, xor(Bytes(heap, drv.b1), Bytes(heap, drv.b2)))
    /\ drv' = [drv EXCEPT !.pc = "Done",
                          !.out = Fresh(heap, Len(xor(Bytes(heap, drv.b1),
                                                      Bytes(heap, drv.b2))))]
    /\ UNCHANGED <<mil, aka, ret, gret, nops, nak, crashed, snap>>

SpecXor == InitXor /\ [][CallXor]_vars

-----------------------------------------------------------------------------
(* Steps and states the claims speak of. *)

\* the step is a call of op on mil[i]
IsCall(i, op) == nops'[i] = nops[i] + 1 /\ ret'[i].op = op

\* mil[i] has valid field widths
Valid(i) == mil[i] # Absent /\ validateLength(mil[i]) = ""

-----------------------------------------------------------------------------
(* Claims about one Milenage instance (specification Spec). *)

\* C1: a GenerateAUTN call on an instance of valid widths, after any calls of
\* the derivations, returns 16 bytes with AUTN[0..6] xor AK = SQN,
\* AUTN[6..8] = AMF and AUTN[8..16] = MAC-A for the instance's current AK and
\* MAC-A, and changes no field of the instance.
C1_GenerateAUTN ==
    [][ (IsCall(1, "GenerateAUTN") /\ Valid(1)) =>
          /\ ret'[1].kind = "ok"
          /\ Len(ret'[1].val[1]) = 16
          /\ xor(SubSeq(ret'[1].val[1], 1, 6), Bytes(heap, mil[1].AK))
               = Bytes(heap, mil[1].SQN)
          /\ SubSeq(ret'[1].val[1], 7, 8) = Bytes(heap, mil[1].AMF)
          /\ SubSeq(ret'[1].val[1], 9, 16) = Bytes(heap, mil[1].MACA)
          /\ MilView(heap', mil'[1]) = MilView(heap, mil[1]) ]_vars

\* GenerateAUTN has returned an AUTN after F1 and F2345 set MAC-A and AK
C1_Witness ==
    /\ ret[1].op = "GenerateAUTN" /\ ret[1].kind = "ok"
    /\ Bytes(heap, mil[1].MACA) # Zeros(8)
    /\ Bytes(heap, mil[1].AK) # Zeros(6)
    /\ Bytes(heap, mil[1].MACS) # Bytes(heap, mil[1].MACA)

\* the MAC-S and the AK-S that GenerateAUTS is to produce on instance m
MacSZero(h, m) == F1Star(h, m, Bytes(h, m.SQN), <<0, 0>>).val[1]
AksOf(h, m) == F5Star(h, m).val[1]

\* what GenerateAUTS returns and stores, for the call r' on instance 1
AutsResult ==
    /\ ret'[1].kind = "ok"
    /\ Len(ret'[1].val[1]) = 14
    /\ xor(SubSeq(ret'[1].val[1], 1, 6), Bytes(heap', mil'[1].AKS))
         = Bytes(heap, mil[1].SQN)
    /\ SubSeq(ret'[1].val[1], 7, 14) = MacSZero(heap, mil[1])
    /\ Bytes(heap', mil'[1].MACS) = MacSZero(heap, mil[1])
    /\ Bytes(heap', mil'[1].AKS) = AksOf(heap, mil[1])

\* C2 as stated: GenerateAUTS returns (SQN xor AK-S) || MAC-S(SQN, 0x0000),
\* stores that MAC-S and AK-S, and changes no other field.
C2_Original ==
    [][ (IsCall(1, "GenerateAUTS") /\ Valid(1)) =>
          /\ AutsResult
          /\ [MilView(heap', mil'[1]) EXCEPT !.MACS = 0, !.AKS = 0]
               = [MilView(heap, mil[1]) EXCEPT !.MACS = 0, !.AKS = 0] ]_vars

\* C2 amended: as C2, except that OPc, when it was absent, is set to the OPc
\* derived from K and OP; every field other than MAC-S, AK-S and such an OPc
\* is unchanged.
C2_GenerateAUTS ==
    [][ (IsCall(1, "GenerateAUTS") /\ Valid(1)) =>
          /\ AutsResult
          /\ [MilView(heap', mil'[1]) EXCEPT !.MACS = 0, !.AKS = 0, !.OPc = 0]
               = [MilView(heap, mil[1]) EXCEPT !.MACS = 0, !.AKS = 0, !.OPc = 0]
          /\ IF mil[1].OPc.a # 0
             THEN FieldView(heap', mil'[1].OPc) = FieldView(heap, mil[1].OPc)
             ELSE FieldView(heap', mil'[1].OPc)
                    = <<FALSE, ComputeOPc(Bytes(heap, mil[1].K), Bytes(heap, mil[1].OP)).val[1]>>
        ]_vars

\* GenerateAUTS has run on an instance whose AMF is not zero, after an
\* F1Star call with another AMF had stored its MAC-S
C2_Witness ==
    /\ ret[1].op = "GenerateAUTS" /\ ret[1].kind = "ok"
    /\ Bytes(heap, mil[1].AMF) # <<0, 0>>
    /\ nops[1] >= 2
    /\ Bytes(heap, mil[1].MACS) # Zeros(8)

\* the SNN of the specification for a 3-character MCC and a 2- or
\* 3-character MNC
SnnFor(mcc, mnc) ==
    StrMnc \o (IF Len(mnc) = 2 THEN <<48>> \o mnc ELSE mnc) \o StrMcc \o mcc \o StrOrg

\* C5: ComputeRESStar(MCC, MNC) on a valid instance builds a 32-byte SNN, the
\* 2-character MNC zero-padded, when MCC has 3 and MNC 2 or 3 characters,
\* and otherwise returns the invalid-SNN-inputs error and no RES*.
C5_ComputeRESStar ==
    (ret[1].op = "ComputeRESStar" /\ Valid(1)) =>
        IF Len(ret[1].args[1]) = 3 /\ Len(ret[1].args[2]) \in {2, 3}
        THEN /\ ret[1].kind = "ok"
             /\ Len(ret[1].snn) = 32
             /\ ret[1].snn = SnnFor(ret[1].args[1], ret[1].args[2])
             /\ Len(ret[1].val[1]) = 16
        ELSE ret[1].kind = "InvalidSNN" /\ ret[1].val = <<>>

\* ComputeRESStar has returned a RES* for a 2-character MNC
C5_Witness ==
    /\ ret[1].op = "ComputeRESStar" /\ ret[1].kind = "ok"
    /\ Len(ret[1].args[2]) = 2

\* C6 as stated: with K of 15 or 17 bytes every public operation returns the
\* invalid-length failure for K, never a cipher-init failure and never a
\* panic.
C6_Original ==
    (ret[1].op # "" /\ Len(Bytes(heap, mil[1].K)) \in {15, 17}) =>
        ret[1].kind = "LengthMismatch" /\ ret[1].field = "K"

\* C9 as stated: F1Star(sqn, amf) on a valid instance with sqn not of 6 bytes
\* or amf not of 2 bytes returns an invalid-length error, without a panic and
\* without a MAC-S.
C9_Original ==
    (ret[1].op = "F1Star" /\ Valid(1)
     /\ (Len(ret[1].args[1]) # 6 \/ Len(ret[1].args[2]) # 2)) =>
        ret[1].kind = "LengthMismatch" /\ ~crashed /\ ret[1].val = <<>>

-----------------------------------------------------------------------------
(* Claims about an Aka made from a Milenage instance (specification        *)
(* SpecAka).                                                               *)

\* C4 as stated: when F2345 and then ComputeRESStar have been called on the
\* instance and the Aka is made from it right after, ComputeHXRESStar returns
\* the last 16 bytes of SHA-256(RAND || RES*) for the RES* that
\* ComputeRESStar returned.
C4_Original ==
    (/\ aka # Absent /\ gret.op = "ComputeHXRESStar"
     /\ nops[1] = snap.at
     /\ ret[1].op = "ComputeRESStar" /\ ret[1].kind = "ok"
     /\ snap.view.CK # <<FALSE, Zeros(16)>>)
    => gret.val[1]
         = SubSeq(Sum256(Bytes(heap, aka.mil.RAND) \o ret[1].val[1]), 17, 32)

\* what the four derivations of Aka a return on heap h
AkaOutputs(h, a) ==
    <<ComputeKAUSF(h, a).val, ComputeKSEAF(h, a).val,
      ComputeKAMF(h, a).val, ComputeHXRESStar(h, a).val>>

\* C7: once aka.New has copied the instance, the copy shows at every later
\* moment what the instance showed at that time, and no call on the instance
\* (F1, F1Star, F2345, F5Star, GenerateAUTS, storing a RES*) changes what
\* ComputeKAUSF, ComputeKSEAF, ComputeKAMF and ComputeHXRESStar return.
C7_Snapshot ==
    [][ aka' # Absent =>
          /\ MilView(heap', aka'.mil) = snap'.view
          /\ (aka # Absent /\ nops'[1] = nops[1] + 1) =>
                 AkaOutputs(heap', aka') = AkaOutputs(heap, aka) ]_vars

\* ComputeKAUSF has returned after a call on the instance, later than the
\* copy, gave the instance another CK
C7_Witness ==
    /\ aka # Absent /\ gret.op = "ComputeKAUSF"
    /\ gret.at > snap.at
    /\ MilView(heap, mil[1]).CK # snap.view.CK

-----------------------------------------------------------------------------
(* Claims about two Milenage instances (specifications SpecEquiv and       *)
(* SpecPair).                                                              *)

\* C3: of an instance made by New(K, OP, ..) and an instance made by
\* NewWithOPc(K, ComputeOPc(K, OP), ..) from the same valid inputs, every
\* call made on both after the same calls returns the same on both, and the
\* OPc the first derives is ComputeOPc(K, OP).
C3_Equivalence ==
    /\ ret[1] = ret[2]
    /\ mil[1].OPc.a # 0 =>
           /\ Bytes(heap, mil[1].OPc)
                = ComputeOPc(Bytes(heap, mil[1].K), Bytes(heap, mil[1].OP)).val[1]
           /\ Bytes(heap, mil[1].OPc) = Bytes(heap, mil[2].OPc)

\* GenerateAUTS has returned on both after another call, the first instance
\* holding OP and the OPc it derived, the second the OPc it was given
C3_Witness ==
    /\ ret[1].op = "GenerateAUTS" /\ ret[1].kind = "ok" /\ nops[1] >= 2
    /\ mil[1].OP.a # 0 /\ mil[1].OPc.a # 0
    /\ mil[2].OP.a = 0

\* RES, CK and IK of mil[i] are those F2345 sets
Populated(i) ==
    <<Bytes(heap, mil[i].RES), Bytes(heap, mil[i].CK), Bytes(heap, mil[i].IK)>>
      = SubSeq(F2345(heap, mil[i]).val, 1, 3)

\* the last call was the same, with the same arguments, on both instances
SameCall == ret[1].op = ret[2].op /\ ret[1].args = ret[2].args

\* C8 as stated: for two instances constructed from equal inputs, F1, F2345,
\* F5Star and ComputeRESStar return the same on both, whatever was called on
\* each before.
C8_Original ==
    (SameCall /\ ret[1].op \in {"F1", "F2345", "F5Star", "ComputeRESStar"}) =>
        ret[1] = ret[2]

\* C8 amended: for two instances constructed from equal inputs, F1, F2345 and
\* F5Star return the same on both, whatever was called on each before;
\* ComputeRESStar returns the same on both when F2345 has set RES, CK and IK
\* on both before, whatever else was called.
C8_Determinism ==
    /\ (SameCall /\ ret[1].op \in {"F1", "F2345", "F5Star"}) => ret[1] = ret[2]
    /\ (SameCall /\ ret[1].op = "ComputeRESStar" /\ Populated(1) /\ Populated(2)) =>
           ret[1] = ret[2]

\* ComputeRESStar has returned on both instances, after F1 and F2345 on the
\* first and after F2345 alone on the second
C8_Witness ==
    /\ ret[1].op = "ComputeRESStar" /\ ret[2].op = "ComputeRESStar"
    /\ ret[1].kind = "ok" /\ ret[2].kind = "ok"
    /\ nops[1] = 3 /\ nops[2] = 2
    /\ Populated(1) /\ Populated(2)
    /\ Bytes(heap, mil[1].MACA) # Zeros(8)
    /\ Bytes(heap, mil[2].MACA) = Zeros(8)

-----------------------------------------------------------------------------
(* Claims about the driver (specification SpecMain). *)

\* C10 as stated: in the driver's round for a 15-digit IMSI, the SNN handed
\* to aka.New has 32 bytes and is the SNN that ComputeRESStar used.
C10_Original ==
    (aka # Absent /\ Len(drv.imsi) = 15) =>
        /\ Len(Bytes(heap, aka.SNN)) = 32
        /\ Bytes(heap, aka.SNN) = drv.resSnn

-----------------------------------------------------------------------------
(* Claims about the OPc of one Milenage instance (specification Spec). *)

\* the operations that start with the OPc step
Deriving == {"F1", "F1Star", "F2345", "F5Star", "GenerateAUTS"}

\* AES(K, OP) xor OP
OPcOf(k, op) == xor(AESBlock(k, op), op)

\* AK-S as f5* defines it from K, RAND and OPc
AksWith(k, rand, opc) ==
    SubSeq(xor(AESBlock(k, FlipLast(Rot(Xor16(AESBlock(k, Xor16(rand, opc)), opc), 4), 8)),
               opc), 1, 6)

\* C11: on an instance of valid widths a call leaves an OPc that is set as it
\* is, whatever the operation; while OPc is absent, F1, F1Star, F2345, F5Star
\* and GenerateAUTS set it to AES(K, OP) xor OP and every other operation
\* leaves it absent; an F5Star that returns has computed AK-S with the OPc
\* the instance holds.
C11_OPcOnce ==
    [][ (nops'[1] = nops[1] + 1 /\ Valid(1)) =>
          /\ mil[1].OPc.a # 0 =>
                 FieldView(heap', mil'[1].OPc) = FieldView(heap, mil[1].OPc)
          /\ (mil[1].OPc.a = 0 /\ ret'[1].op \in Deriving) =>
                 FieldView(heap', mil'[1].OPc)
                   = <<FALSE, OPcOf(Bytes(heap, mil[1].K), Bytes(heap, mil[1].OP))>>
          /\ (mil[1].OPc.a = 0 /\ ret'[1].op \notin Deriving) =>
                 mil'[1].OPc.a = 0
          /\ (ret'[1].op = "F5Star" /\ ret'[1].kind = "ok") =>
                 ret'[1].val[1] = AksWith(Bytes(heap, mil[1].K), Bytes(heap, mil[1].RAND),
                                          Bytes(heap', mil'[1].OPc)) ]_vars

\* OPc was derived by an earlier call, and F5Star has returned after it
C11_Witness ==
    /\ Valid(1) /\ nops[1] >= 2
    /\ mil[1].OP.a # 0 /\ mil[1].OPc.a # 0
    /\ ret[1].op = "F5Star" /\ ret[1].kind = "ok"
    /\ Bytes(heap, mil[1].MACA) # Zeros(8)

-----------------------------------------------------------------------------
(* Claims about the keys of an Aka (specification SpecKeys). *)

\* ComputeKSEAF, ComputeKAMF, ComputeHXRESStar and the field each stores
KeyField ==
    [ComputeKSEAF |-> "KSEAF", ComputeKAMF |-> "KAMF", ComputeHXRESStar |-> "HXRESStar"]

\* what each of the three returns on Aka a
KeyOutputs(h, a) ==
    [ComputeKSEAF |-> ComputeKSEAF(h, a).val, ComputeKAMF |-> ComputeKAMF(h, a).val,
     ComputeHXRESStar |-> ComputeHXRESStar(h, a).val]

\* the stored KAUSF is the one ComputeKAUSF derives
KausfPresent == aka # Absent /\ <<Bytes(heap, aka.KAUSF)>> = ComputeKAUSF(heap, aka).val

\* the step is a call of ComputeKSEAF, ComputeKAMF or ComputeHXRESStar on
\* an Aka whose KAUSF is present
KeyCall == KausfPresent /\ nak' = nak + 1 /\ gret'.op \in DOMAIN KeyField

\* C12: on an Aka whose KAUSF has been derived, a call of ComputeKSEAF,
\* ComputeKAMF or ComputeHXRESStar leaves what each of the three returns
\* unchanged, so that every order and repetition gives the same values; it
\* stores what it returns in its own field and changes no other field, nor
\* KAUSF, nor what the copy of the instance and the instance itself show
\* (ComputeHXRESStar may append into the spare capacity behind RAND, which
\* no field shows); KSEAF and KAMF are HMAC-SHA-256 under the stored KAUSF.
C12_Independent ==
    [][ KeyCall =>
          /\ KeyOutputs(heap', aka') = KeyOutputs(heap, aka)
          /\ gret'.val = KeyOutputs(heap, aka)[gret'.op]
          /\ \A f \in {"SNN", "SUPI", "KAUSF", "KSEAF", "KAMF", "HXRESStar"} :
                 FieldView(heap', aka'[f])
                   = IF f = KeyField[gret'.op] THEN <<FALSE, gret'.val[1]>>
                     ELSE FieldView(heap, aka[f])
          /\ MilView(heap', aka'.mil) = MilView(heap, aka.mil)
          /\ MilView(heap', mil'[1]) = MilView(heap, mil[1])
          /\ gret'.op = "ComputeKSEAF" =>
                 gret'.val[1] = HmacSha256(Bytes(heap, aka.KAUSF),
                                    <<108>> \o Bytes(heap, aka.SNN)
                                    \o byteArrayLen2B(Bytes(heap, aka.SNN)))
          /\ gret'.op = "ComputeKAMF" =>
                 gret'.val[1] = HmacSha256(Bytes(heap, aka.KAUSF),
                                    <<109>> \o Bytes(heap, aka.SUPI)
                                    \o byteArrayLen2B(Bytes(heap, aka.SUPI))
                                    \o <<0, 0, 0, 2>>) ]_vars

\* after ComputeKAUSF on a copy with CK and RES*, ComputeKSEAF and
\* ComputeHXRESStar have run and ComputeKAMF has returned as the fourth call
C12_Witness ==
    /\ KausfPresent /\ nak = 4 /\ gret.op = "ComputeKAMF"
    /\ Bytes(heap, aka.mil.CK) # Zeros(16) /\ aka.mil.RESStar.a # 0
    /\ Bytes(heap, aka.KSEAF) # Zeros(32) /\ aka.HXRESStar.a # 0
    /\ Bytes(heap, aka.KAMF) # Bytes(heap, aka.KSEAF)

-----------------------------------------------------------------------------
(* Claims about xor (specification SpecXor). *)

\* bit k of byte v
BitOf(v, k) == (v \div (2 ^ k)) % 2

\* C13: Xor(b1, b2) returns a slice onto a new array, of the length of the
\* shorter of b1 and b2; each bit of its i-th byte is the sum modulo 2 of
\* the same bits of b1[i] and b2[i]; the arrays of b1 and b2 are as they
\* were, also when b1 and b2 overlap.
C13_Xor ==
    [][ drv'.pc = "Done" =>
          /\ drv'.out.a = Len(heap) + 1 /\ drv'.out.off = 0
          /\ drv'.out.len = IF drv.b1.len < drv.b2.len THEN drv.b1.len ELSE drv.b2.len
          /\ Len(Bytes(heap', drv'.out)) = drv'.out.len
          /\ \A i \in 1..drv'.out.len : \A k \in 0..7 :
                 BitOf(Bytes(heap', drv'.out)[i], k)
                   = (BitOf(Bytes(heap, drv.b1)[i], k) + BitOf(Bytes(heap, drv.b2)[i], k)) % 2
          /\ SubSeq(heap', 1, Len(heap)) = heap
          /\ drv'.b1 = drv.b1 /\ drv'.b2 = drv.b2 ]_vars

\* Xor has returned two bytes for a b1 of three bytes and a b2 of two, which
\* are windows of the same array, and the result shows ones and zeros
C13_Witness ==
    /\ drv.pc = "Done"
    /\ drv.b1.len = 3 /\ drv.b2.len = 2 /\ drv.b2.a = drv.b1.a /\ drv.b2.off = 1
    /\ drv.out.len = 2
    /\ Bytes(heap, drv.out) \notin {<<0, 0>>, Bytes(heap, drv.b1)}

====
